---- MODULE Spec2Model ----
(***************************************************************************)
(* Random-Fact-Generator: the quota-aware fact resolution pipeline.        *)
(*                                                                         *)
(*   apiKeyAuth -> customRateLimit -> FactService -> cache (Redis)         *)
(*                                                                         *)
(* Time is counted in seconds.  Redis is one key/value store with string   *)
(* keys, string values and an optional expiry instant per key.             *)
(***************************************************************************)
EXTENDS Integers, Sequences, FiniteSets, TLC

\* ------------------------------------------------------------------ bounds
MaxTime == 1000        \* last instant of the clock that is explored
TickSeconds == 450     \* granularity of the clock
MaxRequests == 3       \* requests that arrive in one behaviour
MonthSeconds == 900    \* length of a calendar month on the explored clock
MaxOutages == 1        \* times the Redis connection is lost
MaxCalls == 2          \* FactService resolutions started in one behaviour
MaxOps == 3            \* CacheService calls made in one behaviour

\* ------------------------------------------------------- program constants
windowMinutes == 15
basicMax == 100
premiumMax == 1000
platinumMax == 10000
basicMonthly == 1000
premiumMonthly == 100000
Unlimited == -1
defaultTTL == 3600

NoExpiry == -1         \* a Redis key without TTL / a credential without expiry
Null == "<null>"       \* JavaScript null, as returned by the Redis wrapper

Reqs == {"r1", "r2"}
ApiKeyIds == {"kA", "kB"}
UserIds == {"u1"}
Secrets == {"kA", "kB", "bogus"}
IPs == {"ip1", "ip2"}
Origins == {"o1", "o2"}
Plans == {"basic", "premium", "platinum"}

VARIABLES
  now,          \* wall clock, seconds
  redisReady,   \* RedisConnection.isConnectionReady()
  cmdFails,     \* a command sent to the server now is rejected (command error)
  outages,      \* number of connection losses so far
  redis,        \* Redis key space: key -> [val, exp]
  apiKeys,      \* ApiKey collection: _id -> document
  users,        \* User collection: _id -> document
  req,          \* per request task: position and locals (req/res objects)
  arrived,      \* requests that have arrived so far
  admitted,     \* cacheKey -> requests that passed the limit test of customRateLimit
  facts,        \* Fact collection: the stored documents
  fallbackEnabled, \* config.ai.fallbackEnabled
  task,         \* per resolution (FactService call): position and locals
  calls,        \* resolutions started so far
  cs,           \* the CacheService client: position and locals of its call
  lastWrite,    \* per cache key: the last write CacheService made to it
  scn,          \* progress of the tag scenario: two setWithTags, one invalidateByTag
  peer          \* a second caller of CacheService in flight: position and locals of its call

gateVars == <<apiKeys, users, req, arrived, admitted>>
factVars == <<facts, fallbackEnabled, task, calls>>
cacheVars == <<cs, lastWrite, scn, peer>>

vars == <<now, redisReady, cmdFails, outages, redis, apiKeys, users, req, arrived, admitted,
          facts, fallbackEnabled, task, calls, cs, lastWrite, scn, peer>>

\* ------------------------------------------------------------------ Redis
Live(store, key, t) ==
  /\ key \in DOMAIN store
  /\ (store[key].exp = NoExpiry \/ t < store[key].exp)

\* parseInt on the decimal strings INCR produces
parseInt(s) == CHOOSE n \in 0..(MaxRequests + 1) : ToString(n) = s

\* a command is sent (the connection is ready) and the server answers it
Usable == redisReady /\ ~cmdFails

\* outcome of an awaited call: the value it resolved to, or a rejection
Ret(v) == [threw |-> FALSE, val |-> v]
Thrown(v) == [threw |-> TRUE, val |-> v]

TryCatch_rethrow(attempt, fallback) == attempt

\* try { return attempt } catch (error) { return fallback }
TryCatch(attempt, fallback) == IF attempt.threw THEN Ret(fallback) ELSE attempt

\* this.client.get(key): rejected on a command error
ClientGet(key) ==
  IF cmdFails THEN Thrown(Null)
  ELSE Ret(IF Live(redis, key, now) THEN redis[key].val ELSE Null)

\* RedisConnection.get with its readiness test and its catch (lines 93-104)
ConnGet(key) ==
  IF ~redisReady THEN Ret(Null) ELSE TryCatch(ClientGet(key), Null)

\* this.client.setex / this.client.set: rejected on a command error
ClientSet == IF cmdFails THEN Thrown(FALSE) ELSE Ret(TRUE)

\* RedisConnection.set with its readiness test and its catch (lines 106-123)
ConnSet == IF ~redisReady THEN Ret(FALSE) ELSE TryCatch(ClientSet, FALSE)

\* RedisConnection.get: null when not ready or on a command error, else the
\* stored string or null
RedisGet(key) == ConnGet(key).val

\* the store after the server executed INCR key
IncrStore(store, key, t) ==
  IF Live(store, key, t)
    THEN [store EXCEPT ![key].val = ToString(parseInt(store[key].val) + 1)]
    ELSE (key :> [val |-> "1", exp |-> NoExpiry]) @@ store

\* the store after the server executed EXPIRE key ttl
ExpireStore(store, key, ttl, t) ==
  IF Live(store, key, t) THEN [store EXCEPT ![key].exp = t + ttl] ELSE store

\* keys whose TTL has run out are gone for every client
Purge(store, t) ==
  [k \in {x \in DOMAIN store : Live(store, x, t)} |-> store[k]]

\* ------------------------------------------------------------ credentials
is_expired_reversed(doc) == doc.expiry # NoExpiry /\ now < doc.expiry

\* apiKeySchema.virtual('is_expired')
is_expired(doc) == doc.expiry # NoExpiry /\ now > doc.expiry

\* apiKeySchema.methods.isValidForRequest
isValidForRequest(doc, ip, origin) ==
  IF doc.status # "active" THEN FALSE
  ELSE IF is_expired(doc) THEN FALSE
  ELSE IF doc.ip_whitelist # {} /\ ip \notin doc.ip_whitelist THEN FALSE
  ELSE IF doc.allowed_origins # {} /\ origin \notin doc.allowed_origins THEN FALSE
  ELSE TRUE

findByKey_anyStatus(secret) ==
  {k \in DOMAIN apiKeys : apiKeys[k].key = secret}

\* apiKeySchema.statics.findByKey: the ids of the matching documents (0 or 1)
findByKey(secret) ==
  {k \in DOMAIN apiKeys : apiKeys[k].key = secret /\ apiKeys[k].status = "active"}

canMakeRequest_noSentinel(user) ==
  IF user.status # "active" THEN FALSE
  ELSE user.monthly_requests < user.monthly_limit

\* userSchema.methods.canMakeRequest
canMakeRequest(user) ==
  IF user.status # "active" THEN FALSE
  ELSE IF user.monthly_limit = Unlimited THEN TRUE
  ELSE user.monthly_requests < user.monthly_limit

\* RateLimiter.getRateLimitForUser
getRateLimitForUser(user, apiKey) ==
  IF apiKey.rate_limit_override # 0
    THEN [max |-> apiKey.rate_limit_override, windowMinutes |-> windowMinutes]
    ELSE CASE user.plan = "premium" -> [max |-> premiumMax, windowMinutes |-> windowMinutes]
           [] user.plan = "platinum" -> [max |-> platinumMax, windowMinutes |-> windowMinutes]
           [] OTHER -> [max |-> basicMax, windowMinutes |-> windowMinutes]

\* new Date(y, m, d, h, floor(min / 15) * 15): the start of the 15-minute bucket
windowStartOf(t) == t - (t % (windowMinutes * 60))

rateKey(keyId, ws) == "rate_limit:" \o keyId \o ":" \o ToString(ws)

max0(a) == IF a > 0 THEN a ELSE 0

\* ------------------------------------------------------------ request task
NoDoc == [id |-> "none"]
IdleReq ==
  [pc |-> "idle", secret |-> "", apiKey |-> NoDoc, user |-> NoDoc,
   windowStart |-> 0, cacheKey |-> "", requestCount |-> 0,
   status |-> 0, error_code |-> "", remaining |-> -1, resetAt |-> -1,
   credStatus |-> "none", credExpired |-> FALSE, seenAdmitted |-> 0,
   storeOps |-> 0, readFailed |-> FALSE, incrFailed |-> FALSE,
   userLoaded |-> NoDoc, apiKeyLoaded |-> NoDoc, recCalls |-> 0,
   parallelSave |-> FALSE]

\* ------------------------------------------------------------ Fact Resolver
Tasks == {"t1", "t2"}

\* FactService.categories
Categories ==
  {"science", "history", "technology", "nature", "space", "animals",
   "geography", "sports", "entertainment", "health", "food", "general"}

\* FactService.isValidCategory
isValidCategory(category) == category \in Categories

\* what a caller may ask for ("" : no category)
AskedCategories == {"", "science", "atlantis"}

\* a fact: `typed` tells a database document (ObjectId, Date fields) from a
\* plain JSON object; `generated` tells the generator's output
Fact(id, category, verified, ai, typed, generated) ==
  [id |-> id, category |-> category, verified |-> verified, ai_generated |-> ai,
   typed |-> typed, generated |-> generated]

NoFact == [id |-> "none"]

StoredS1 == Fact("S1", "science", TRUE, FALSE, TRUE, FALSE)
StoredS2 == Fact("S2", "science", FALSE, TRUE, TRUE, FALSE)

\* AIService.parseFactResponse: the object built from the completion
parseFactResponse(category) == Fact("", category, FALSE, FALSE, FALSE, TRUE)

\* the record addFact saves for a generated fact (getRandomFact lines 46-51);
\* the pre-save hook verifies it when its moderation score is at least 0.9
SavedAIFact(f, highScore) ==
  [f EXCEPT !.id = "G1", !.verified = highScore, !.ai_generated = TRUE, !.typed = TRUE]

AllFacts ==
  {Fact(id, c, v, a, ty, g) :
     id \in {"", "S1", "S2", "G1"}, c \in {"science", "general"},
     v \in BOOLEAN, a \in BOOLEAN, ty \in BOOLEAN, g \in BOOLEAN}

BoolStr(b) == IF b THEN "true" ELSE "false"

\* JSON.stringify of a fact: ObjectId and Date fields become strings, so the
\* text does not tell a document from a plain object
JSONstringify(f) ==
  "{" \o f.id \o "," \o f.category \o "," \o BoolStr(f.verified) \o ","
      \o BoolStr(f.ai_generated) \o "," \o BoolStr(f.generated) \o "}"

\* JSON.parse: the plain object the text denotes
JSONparse(s) == CHOOSE f \in AllFacts : ~f.typed /\ JSONstringify(f) = s

randomKey(category) == "random_fact_" \o (IF category = "" THEN "any" ELSE category)
categoryKey(category) == "fact_category_" \o category
aiKey(category, optionsJson) == "ai_fact_" \o category \o "_" \o optionsJson

Expiry_never(ttl, t) == NoExpiry

\* `if (ttl) setex(key, ttl, value) else set(key, value)`
Expiry(ttl, t) == IF ttl # 0 THEN t + ttl ELSE NoExpiry

\* RedisConnection.set: SETEX when ttl is truthy, SET otherwise
SetStore(store, key, val, ttl, t) ==
  (key :> [val |-> val, exp |-> Expiry(ttl, t)])
    @@ [k \in DOMAIN store \ {key} |-> store[k]]

\* RedisConnection.del on a set of keys
DelStore(store, keys) == [k \in DOMAIN store \ keys |-> store[k]]

IdleTask ==
  [pc |-> "idle", op |-> "", category |-> "", forceNew |-> FALSE,
   excludeAI |-> FALSE, saveAIFacts |-> TRUE,
   cacheKey |-> "", catKey |-> "", genKey |-> "",
   cachedFact |-> Null, genCachedFact |-> Null, fact |-> NoFact,
   error |-> "", source |-> "",
   held |-> FALSE, cacheEmpty |-> FALSE, storeMiss |-> FALSE, cacheCalls |-> 0, storeQueries |-> 0, genCalls |-> 0,
   genFailed |-> FALSE, cachedAtReturn |-> FALSE, persistFailed |-> FALSE]

\* ------------------------------------------------------------ Cache Layer
keyPrefix == "rfg:"
CacheKeys == {"k1", "k2"}
Tags == {"t"}
TtlArgs == {0, 300, defaultTTL}

\* CacheService.generateKey
generateKey(key) == keyPrefix \o key

\* `tag:${tag}`
tagKeyOf(tag) == "tag:" \o tag

\* JavaScript values handed to the cache
JSValue(t, s, items) == [t |-> t, s |-> s, items |-> items]
NullV == JSValue("null", "", <<>>)
Obj(s) == JSValue("object", s, <<>>)
DateV(s) == JSValue("date", s, <<>>)
StrV(s) == JSValue("string", s, <<>>)
Arr(items) == JSValue("array", "", items)

KeyLists ==
  {<<>>} \cup {<<a>> : a \in CacheKeys}
         \cup {<<a, b>> : a \in CacheKeys, b \in CacheKeys}

JSValues ==
  {Obj(s) : s \in {"a", "b"}} \cup {DateV("d"), StrV("d"), NullV}
    \cup {Arr(l) : l \in KeyLists}

CacheValues == {Obj("a"), DateV("d")}

RECURSIVE Join(_)
Join(items) ==
  IF Len(items) = 0 THEN ""
  ELSE IF Len(items) = 1 THEN items[1]
  ELSE items[1] \o "," \o Join(Tail(items))

\* JSON.stringify of a cache value: a Date is written as a string
stringify(v) ==
  CASE v.t = "object" -> "{" \o v.s \o "}"
    [] v.t \in {"date", "string"} -> "'" \o v.s \o "'"
    [] v.t = "array" -> "[" \o Join(v.items) \o "]"
    [] OTHER -> "null"

\* JSON.parse of a stored text
parse(text) == CHOOSE v \in JSValues : v.t # "date" /\ stringify(v) = text

Includes(items, key) == \E i \in 1..Len(items) : items[i] = key

Push_overwrite(items, key) == <<key>>

\* taggedKeys.push(key)
Push(items, key) == Append(items, key)

Members(items) == {items[i] : i \in 1..Len(items)}

IdleClient ==
  [pc |-> "idle", op |-> "", key |-> "", value |-> NullV, ttl |-> 0, tag |-> "",
   taggedKeys |-> <<>>, result |-> NullV, ok |-> FALSE, at |-> 0, n |-> 0,
   aliveAtTagDel |-> {}, missed |-> FALSE, fetchCalls |-> 0, fetchFailed |-> FALSE,
   stored |-> FALSE, error |-> "", threw |-> FALSE, storeState |-> "ready"]

NoWrite == [kind |-> "none", value |-> NullV, ttl |-> 0, at |-> 0, seen |-> FALSE]

NoScenario == [stage |-> 0, first |-> ""]

CacheIdle ==
  /\ cs = IdleClient
  /\ lastWrite = [k \in CacheKeys |-> NoWrite]
  /\ scn = NoScenario
  /\ peer = IdleClient

FactIdle ==
  /\ facts = {}
  /\ fallbackEnabled = FALSE
  /\ task = [t \in Tasks |-> IdleTask]
  /\ calls = 0

\* ------------------------------------------------------------------- Init
PlanMonthly(plan) ==
  CASE plan = "premium" -> premiumMonthly
    [] plan = "platinum" -> Unlimited
    [] OTHER -> basicMonthly

\* first instant of the month after t: the schema default of
\* usage.monthly_reset_date and the date resetMonthlyUsage sets
nextMonth(t) == ((t \div MonthSeconds) + 1) * MonthSeconds

KeyDoc(k, exp, wl, ovr) ==
  [id |-> k, key |-> k, userId |-> "u1", status |-> "active",
   total_requests |-> 0, monthly_requests |-> 0,
   monthly_reset_date |-> nextMonth(0), error_count |-> 0,
   expiry |-> IF k = "kA" THEN exp ELSE NoExpiry,
   ip_whitelist |-> IF k = "kA" THEN wl ELSE {},
   allowed_origins |-> IF k = "kB" THEN {"o1"} ELSE {},
   rate_limit_override |-> IF k = "kA" THEN ovr ELSE 1]

UserDoc(u, plan, st, used) ==
  [id |-> u, status |-> st, plan |-> plan,
   monthly_limit |-> PlanMonthly(plan), monthly_requests |-> used,
   total_requests |-> used, monthly_reset_date |-> nextMonth(0)]

InitCommon ==
  /\ now = 0
  /\ redisReady = TRUE
  /\ cmdFails = FALSE
  /\ outages = 0
  /\ redis = <<>>

GateIdle ==
  /\ req = [r \in Reqs |-> IdleReq]
  /\ arrived = 0
  /\ admitted = <<>>

\* concurrent requests of active credentials: the rate limiter
Init ==
  /\ InitCommon
  /\ GateIdle
  /\ FactIdle
  /\ CacheIdle
  /\ \E ovr \in {0, 1, 2} :
       apiKeys = [k \in ApiKeyIds |-> KeyDoc(k, NoExpiry, {}, ovr)]
  /\ users = [u \in UserIds |-> UserDoc(u, "basic", "active", 0)]

\* one request at a time, every kind of credential and identity: the AuthGate
InitAuth ==
  /\ InitCommon
  /\ GateIdle
  /\ FactIdle
  /\ CacheIdle
  /\ \E exp \in {NoExpiry, TickSeconds}, wl \in {{}, {"ip1"}}, ovr \in {0, 1} :
       apiKeys = [k \in ApiKeyIds |-> KeyDoc(k, exp, wl, ovr)]
  /\ \E plan \in Plans, st \in {"active", "suspended"},
        used \in {0, basicMonthly, premiumMonthly} :
       users = [u \in UserIds |-> UserDoc(u, plan, st, used)]

\* ---------------------------------------------------------------- AuthGate
\* status of the stored credential whose secret is presented ("none": no such)
StoredStatus(secret) ==
  IF \E k \in DOMAIN apiKeys : apiKeys[k].key = secret
    THEN apiKeys[CHOOSE k \in DOMAIN apiKeys : apiKeys[k].key = secret].status
    ELSE "none"

\* the stored credential whose secret is presented has passed its expiry instant
StoredExpired(secret) ==
  \E k \in DOMAIN apiKeys :
    /\ apiKeys[k].key = secret
    /\ apiKeys[k].expiry # NoExpiry
    /\ apiKeys[k].expiry < now

\* AuthMiddleware.apiKeyAuth: one database read, then synchronous checks
apiKeyAuth(r, secret, ip, origin) ==
  /\ req[r].pc \in {"idle", "responded", "handler", "recorded"}
  /\ arrived < MaxRequests
  /\ arrived' = arrived + 1
  /\ LET seen == [IdleReq EXCEPT !.secret = secret,
                    !.credStatus = StoredStatus(secret),
                    !.credExpired = StoredExpired(secret)]
         reject(code, err) ==
           req' = [req EXCEPT ![r] = [seen EXCEPT !.pc = "responded",
                                        !.status = code, !.error_code = err]]
     IN
     IF secret = "" THEN reject(401, "MISSING_API_KEY")
     ELSE IF findByKey(secret) = {} THEN reject(403, "INVALID_API_KEY")
     ELSE
       LET doc == apiKeys[CHOOSE k \in findByKey(secret) : TRUE] IN
       IF ~isValidForRequest(doc, ip, origin) THEN reject(403, "ACCESS_DENIED")
       ELSE IF doc.userId \notin DOMAIN users
               \/ users[doc.userId].status # "active"
         THEN reject(403, "INACTIVE_ACCOUNT")
       ELSE IF ~canMakeRequest(users[doc.userId])
         THEN reject(429, "LIMIT_EXCEEDED")
       ELSE req' = [req EXCEPT ![r] = [seen EXCEPT !.pc = "rateLimit",
                                         !.apiKey = doc,
                                         !.user = users[doc.userId]]]
  /\ UNCHANGED <<now, redisReady, cmdFails, outages, redis, apiKeys, users, admitted>>
  /\ UNCHANGED factVars
  /\ UNCHANGED cacheVars

\* ------------------------------------------------------------ Quota Tracker
Bump(f, key) ==
  IF key \in DOMAIN f THEN [f EXCEPT ![key] = @ + 1] ELSE (key :> 1) @@ f

CountOf(f, key) == IF key \in DOMAIN f THEN f[key] ELSE 0

\* headers set and next() called by customRateLimit (lines 99-106)
Admit(q, limit) ==
  [q EXCEPT !.pc = "handler",
            !.remaining = max0(limit.max - q.requestCount - 1),
            !.resetAt = q.windowStart + limit.windowMinutes * 60]

CountRead_closed(got) == IF got # Null THEN parseInt(got) ELSE platinumMax

\* requestCount = requestCount ? parseInt(requestCount) : 0 (line 68)
CountRead(got) == IF got # Null THEN parseInt(got) ELSE 0

\* customRateLimit up to `await cache.get(cacheKey)` (lines 55-68)
rlGet(r) ==
  /\ req[r].pc = "rateLimit"
  /\ LET keyId == req[r].apiKey.id
         ws == windowStartOf(now)
         cacheKey == rateKey(keyId, ws)
         got == RedisGet(cacheKey)
     IN req' = [req EXCEPT ![r].pc = "rl_check",
                           ![r].windowStart = ws,
                           ![r].cacheKey = cacheKey,
                           ![r].requestCount = CountRead(got),
                           ![r].readFailed = ~Usable,
                           ![r].seenAdmitted = CountOf(admitted, cacheKey),
                           ![r].storeOps = IF redisReady THEN 1 ELSE 0]
  /\ UNCHANGED <<now, redisReady, cmdFails, outages, redis, apiKeys, users, arrived, admitted>>
  /\ UNCHANGED factVars
  /\ UNCHANGED cacheVars

LimitExceeded_strict(requestCount, max) == requestCount > max

\* the limit test (>=), as the code makes it
LimitExceeded(requestCount, max) == requestCount >= max

\* customRateLimit from the limit test to `client.incr` (lines 70-97, redis.js 139-146)
rlCheck(r) ==
  /\ req[r].pc = "rl_check"
  /\ LET limit == getRateLimitForUser(req[r].user, req[r].apiKey) IN
     IF LimitExceeded(req[r].requestCount, limit.max)
       THEN /\ req' = [req EXCEPT ![r].pc = "responded", ![r].status = 429,
                                  ![r].error_code = "USER_RATE_LIMIT_EXCEEDED",
                                  ![r].resetAt = req[r].windowStart + limit.windowMinutes * 60]
            /\ UNCHANGED <<redis, admitted>>
       ELSE IF ~Usable
         THEN \* increment returns 0 without touching the store; the request goes on
              /\ req' = [req EXCEPT ![r] = [Admit(req[r], limit) EXCEPT
                                              !.storeOps = IF redisReady THEN @ + 1 ELSE @,
                                              !.incrFailed = TRUE]]
              /\ admitted' = Bump(admitted, req[r].cacheKey)
              /\ UNCHANGED redis
         ELSE LET after == IncrStore(redis, req[r].cacheKey, now) IN
              /\ redis' = after
              /\ IF after[req[r].cacheKey].val = "1"
                   THEN \* result === 1: EXPIRE is awaited before the headers
                        req' = [req EXCEPT ![r].pc = "rl_expire", ![r].storeOps = @ + 1]
                   ELSE req' = [req EXCEPT ![r] = [Admit(req[r], limit)
                                                     EXCEPT !.storeOps = @ + 1]]
              /\ admitted' = Bump(admitted, req[r].cacheKey)
  /\ UNCHANGED <<now, redisReady, cmdFails, outages, apiKeys, users, arrived>>
  /\ UNCHANGED factVars
  /\ UNCHANGED cacheVars

\* `client.expire` of the first increment, then the headers and next()
\* (redis.js 147-154, customRateLimit lines 99-106)
rlExpire(r) ==
  /\ req[r].pc = "rl_expire"
  /\ LET limit == getRateLimitForUser(req[r].user, req[r].apiKey) IN
     /\ redis' = IF Usable
                   THEN ExpireStore(redis, req[r].cacheKey, limit.windowMinutes * 60, now)
                   ELSE redis
     /\ req' = [req EXCEPT ![r] = [Admit(req[r], limit) EXCEPT
                                     !.storeOps = IF redisReady THEN @ + 1 ELSE @,
                                     !.incrFailed = ~Usable]]
  /\ UNCHANGED <<now, redisReady, cmdFails, outages, apiKeys, users, arrived, admitted>>
  /\ UNCHANGED factVars
  /\ UNCHANGED cacheVars

\* ------------------------------------------------- Fact Resolver: the calls
\* cache.set as FactService calls it: nothing happens when Redis is not ready
CacheSet(key, val, ttl) ==
  IF Usable THEN SetStore(redis, key, val, ttl, now) ELSE redis

\* the options object generateFact receives, as JSON.stringify prints it
GenOptions(q) ==
  IF q.op = "category" THEN "{excludeAI:" \o BoolStr(q.excludeAI) \o "}"
  ELSE IF q.category # "" THEN "{skipCache:true}"
  ELSE "{forceNew:" \o BoolStr(q.forceNew) \o ",saveAIFacts:" \o BoolStr(q.saveAIFacts) \o "}"

\* the category generateFact is asked for
GenCategory(q) == IF q.category # "" THEN q.category ELSE "general"

\* options.forceNew as generateFact sees it
GenForceNew(q) == q.op = "random" /\ q.category = "" /\ q.forceNew

\* Fact.findOne({category, verified: true [, ai_generated: {$ne: true}]}).lean()
FindOne(category, excludeAI) ==
  LET hits == {f \in facts : /\ f.category = category
                             /\ f.verified
                             /\ (excludeAI => ~f.ai_generated)}
  IN IF hits = {} THEN {NoFact} ELSE hits

\* Fact.aggregate([{ $sample: { size: 1 } }])
Sample == IF facts = {} THEN {NoFact} ELSE facts

CacheHit_onlyWhenForced(cachedFact, forceNew) == cachedFact # Null /\ forceNew

\* `cachedFact && !options.forceNew`
CacheHit(cachedFact, forceNew) == cachedFact # Null /\ ~forceNew

NeedsFallback_whenDisabled(f, excludeAI) == f = NoFact /\ ~fallbackEnabled /\ ~excludeAI

\* `!fact && config.features.fallbackEnabled [&& !options.excludeAI]`
NeedsFallback(f, excludeAI) == f = NoFact /\ fallbackEnabled /\ ~excludeAI

Throw(q, kind) == [q EXCEPT !.pc = "done", !.error = kind]

\* the value is handed to the caller; the store is as the last command left it
Return(q, f, src, store) ==
  [q EXCEPT !.pc = "done", !.fact = f, !.source = src,
            !.cachedAtReturn = Live(store, q.cacheKey, now)]

TaskFrame ==
  /\ UNCHANGED <<now, redisReady, cmdFails, outages, fallbackEnabled>>
  /\ UNCHANGED gateVars
  /\ UNCHANGED cacheVars

\* getRandomFact up to `await cache.get(cacheKey)` (lines 16-23)
getRandomFact(t) ==
  /\ task[t].pc \in {"idle", "done"}
  /\ calls < MaxCalls
  /\ calls' = calls + 1
  /\ \E category \in AskedCategories, forceNew \in BOOLEAN :
     \E saveAIFacts \in (IF category = "" THEN BOOLEAN ELSE {TRUE}) :
       LET key == randomKey(category) IN
       task' = [task EXCEPT ![t] =
                  [IdleTask EXCEPT !.pc = "grf_cached", !.op = "random",
                     !.category = category, !.forceNew = forceNew,
                     !.saveAIFacts = saveAIFacts, !.cacheKey = key,
                     !.cachedFact = RedisGet(key),
                     !.held = Live(redis, key, now),
                     !.cacheEmpty = (DOMAIN Purge(redis, now) = {}),
                     !.cacheCalls = 1]]
  /\ UNCHANGED <<redis, facts>>
  /\ TaskFrame

\* getFactByCategory called by the controller, up to `await cache.get` (lines 75-86)
getFactByCategory(t) ==
  /\ task[t].pc \in {"idle", "done"}
  /\ calls < MaxCalls
  /\ calls' = calls + 1
  /\ \E category \in AskedCategories \ {""} :
     \E excludeAI \in (IF isValidCategory(category) THEN BOOLEAN ELSE {FALSE}) :
       LET key == categoryKey(category)
           q == [IdleTask EXCEPT !.op = "category", !.category = category,
                                 !.excludeAI = excludeAI]
       IN
       IF ~isValidCategory(category)
         THEN task' = [task EXCEPT ![t] = Throw(q, "InvalidCategory")]
         ELSE task' = [task EXCEPT ![t] =
                         [q EXCEPT !.pc = "cat_cached", !.cacheKey = key, !.catKey = key,
                                   !.cachedFact = RedisGet(key),
                                   !.held = Live(redis, key, now),
                     !.cacheEmpty = (DOMAIN Purge(redis, now) = {}),
                     !.cacheCalls = 1]]
  /\ UNCHANGED <<redis, facts>>
  /\ TaskFrame

\* getRandomFact after the cache read: hit, or the store lookup (lines 25-37, 75-99)
grfCached(t) ==
  /\ task[t].pc = "grf_cached"
  /\ LET q == task[t] IN
     IF CacheHit(q.cachedFact, q.forceNew)
       THEN task' = [task EXCEPT ![t] = Return(q, JSONparse(q.cachedFact), "cache", redis)]
       ELSE IF q.category # ""
         THEN IF ~isValidCategory(q.category)
                THEN task' = [task EXCEPT ![t] = Throw(q, "InvalidCategory")]
                ELSE \E f \in FindOne(q.category, FALSE) :
                       task' = [task EXCEPT ![t] =
                                  [q EXCEPT !.pc = "cat_found", !.fact = f, !.storeMiss = (f = NoFact),
                                            !.catKey = categoryKey(q.category),
                                            !.storeQueries = @ + 1]]
         ELSE \E f \in Sample :
                task' = [task EXCEPT ![t] =
                           [q EXCEPT !.pc = "grf_sampled", !.fact = f, !.storeMiss = (f = NoFact),
                                     !.storeQueries = @ + 1]]
  /\ UNCHANGED <<redis, facts, calls>>
  /\ TaskFrame

\* getFactByCategory after the cache read (lines 87-99)
catCached(t) ==
  /\ task[t].pc = "cat_cached"
  /\ LET q == task[t] IN
     IF q.cachedFact # Null
       THEN task' = [task EXCEPT ![t] = Return(q, JSONparse(q.cachedFact), "cache", redis)]
       ELSE \E f \in FindOne(q.category, q.excludeAI) :
              task' = [task EXCEPT ![t] =
                         [q EXCEPT !.pc = "cat_found", !.fact = f, !.storeMiss = (f = NoFact),
                                   !.storeQueries = @ + 1]]
  /\ UNCHANGED <<redis, facts, calls>>
  /\ TaskFrame

\* generateFact up to its `await cache.get(cacheKey)` (aiService.js lines 34-42)
EnterGenerate(q) ==
  LET key == aiKey(GenCategory(q), GenOptions(q)) IN
  [q EXCEPT !.pc = "gen_cached", !.genKey = key, !.genCachedFact = RedisGet(key),
            !.cacheCalls = @ + 1]

\* getFactByCategory after findOne (lines 101-120)
catFound(t) ==
  /\ task[t].pc = "cat_found"
  /\ LET q == task[t] IN
     IF NeedsFallback(q.fact, q.excludeAI)
       THEN /\ task' = [task EXCEPT ![t] = EnterGenerate(q)]
            /\ UNCHANGED redis
       ELSE IF q.fact = NoFact
         THEN /\ task' = [task EXCEPT ![t] = Throw(q, "NoFactAvailable")]
              /\ UNCHANGED redis
         ELSE LET after == CacheSet(q.catKey, JSONstringify(q.fact), 1800)
                  w == [q EXCEPT !.cacheCalls = @ + 1, !.source = "store"]
              IN
              /\ redis' = after
              /\ task' = [task EXCEPT ![t] =
                            IF q.op = "category" THEN Return(w, q.fact, "store", after)
                            ELSE [w EXCEPT !.pc = "cat_set"]]
  /\ UNCHANGED <<facts, calls>>
  /\ TaskFrame

\* getRandomFact after the random sample (lines 36-60)
grfSampled(t) ==
  /\ task[t].pc = "grf_sampled"
  /\ LET q == task[t] IN
     IF NeedsFallback(q.fact, FALSE)
       THEN /\ task' = [task EXCEPT ![t] = EnterGenerate(q)]
            /\ UNCHANGED redis
       ELSE IF q.fact = NoFact
         THEN /\ task' = [task EXCEPT ![t] = Throw(q, "NoFactAvailable")]
              /\ UNCHANGED redis
         ELSE LET after == CacheSet(q.cacheKey, JSONstringify(q.fact), 300) IN
              /\ redis' = after
              /\ task' = [task EXCEPT ![t] =
                            Return([q EXCEPT !.cacheCalls = @ + 1], q.fact, "store", after)]
  /\ UNCHANGED <<facts, calls>>
  /\ TaskFrame

\* generateFact after its cache read: cached fact, or the completion request
\* is posted (aiService.js lines 44-63)
genCached(t) ==
  /\ task[t].pc = "gen_cached"
  /\ LET q == task[t] IN
     IF CacheHit(q.genCachedFact, GenForceNew(q))
       THEN task' = [task EXCEPT ![t] =
                       [q EXCEPT !.pc = "gen_stored", !.fact = JSONparse(q.genCachedFact)]]
       ELSE task' = [task EXCEPT ![t] = [q EXCEPT !.pc = "gen_waiting", !.genCalls = @ + 1]]
  /\ UNCHANGED <<redis, facts, calls>>
  /\ TaskFrame

\* the generator answers the posted request, with a completion or an error;
\* the request carries no timeout and no abort signal, so until this happens
\* generateFact stays at its await (aiService.js lines 55-73, 86-89)
genAnswered(t) ==
  /\ task[t].pc = "gen_waiting"
  /\ LET q == task[t] IN
     \E ok \in BOOLEAN :
       task' = [task EXCEPT ![t] =
                  IF ok THEN [q EXCEPT !.pc = "gen_called",
                                       !.fact = parseFactResponse(GenCategory(q))]
                  ELSE [Throw(q, "NoFactAvailable") EXCEPT !.genFailed = TRUE]]
  /\ UNCHANGED <<redis, facts, calls>>
  /\ TaskFrame

\* generateFact caches its result for an hour (aiService.js line 76)
genCalled(t) ==
  /\ task[t].pc = "gen_called"
  /\ redis' = CacheSet(task[t].genKey, JSONstringify(task[t].fact), 3600)
  /\ task' = [task EXCEPT ![t].pc = "gen_stored", ![t].cacheCalls = @ + 1]
  /\ UNCHANGED <<facts, calls>>
  /\ TaskFrame

\* generateFact has returned: getFactByCategory caches the fact for 10 minutes
\* (lines 103-108); getRandomFact saves it (lines 42-52, addFact 128-156)
genStored(t) ==
  /\ task[t].pc = "gen_stored"
  /\ LET q == task[t] IN
     IF q.category # ""
       THEN LET after == CacheSet(q.catKey, JSONstringify(q.fact), 600)
                w == [q EXCEPT !.cacheCalls = @ + 1, !.source = "generated"]
            IN
            /\ redis' = after
            /\ task' = [task EXCEPT ![t] =
                          IF q.op = "category" THEN Return(w, q.fact, "generated", after)
                          ELSE [w EXCEPT !.pc = "cat_set"]]
            /\ UNCHANGED facts
       ELSE IF q.saveAIFacts
         THEN \E saved \in BOOLEAN, highScore \in BOOLEAN :
                IF saved
                  THEN /\ facts' = facts \cup {SavedAIFact(q.fact, highScore)}
                       /\ task' = [task EXCEPT ![t].pc = "grf_added",
                                               ![t].source = "generated"]
                       /\ UNCHANGED redis
                  ELSE \* validateFactData, moderation or save threw: addFact
                       \* rethrows, and so does getRandomFact (lines 68-71)
                       /\ task' = [task EXCEPT ![t] =
                                     [Throw(q, "PersistFailed") EXCEPT !.persistFailed = TRUE]]
                       /\ UNCHANGED <<redis, facts>>
         ELSE LET after == CacheSet(q.cacheKey, JSONstringify(q.fact), 300) IN
              /\ redis' = after
              /\ task' = [task EXCEPT ![t] =
                            Return([q EXCEPT !.cacheCalls = @ + 1], q.fact, "generated", after)]
              /\ UNCHANGED facts
  /\ UNCHANGED calls
  /\ TaskFrame

\* addFact after save: clearFactCaches(category) (lines 158-159, 398-406)
grfAdded(t) ==
  /\ task[t].pc = "grf_added"
  /\ LET c == task[t].fact.category IN
     redis' = IF Usable
                THEN DelStore(redis, {"random_fact_any", randomKey(c), categoryKey(c)})
                ELSE redis
  /\ task' = [task EXCEPT ![t].pc = "cat_set", ![t].cacheCalls = @ + 3]
  /\ UNCHANGED <<facts, calls>>
  /\ TaskFrame

\* getRandomFact caches the result for 5 minutes and returns it (lines 59-67)
catSet(t) ==
  /\ task[t].pc = "cat_set"
  /\ LET q == task[t]
         after == CacheSet(q.cacheKey, JSONstringify(q.fact), 300)
     IN
     /\ redis' = after
     /\ task' = [task EXCEPT ![t] =
                   Return([q EXCEPT !.cacheCalls = @ + 1], q.fact, q.source, after)]
  /\ UNCHANGED <<facts, calls>>
  /\ TaskFrame

\* ------------------------------------------------- Cache Layer: the calls
CacheFrame ==
  /\ UNCHANGED <<now, redisReady, cmdFails, outages, peer>>
  /\ UNCHANGED gateVars
  /\ UNCHANGED factVars

\* CacheService.get with its catch (part_011 lines 17-33)
CSgetOutcome(key) ==
  LET o == ConnGet(generateKey(key)) IN
  TryCatch(IF o.threw THEN Thrown(NullV)
           ELSE Ret(IF o.val # Null THEN parse(o.val) ELSE NullV),
           NullV)

\* the value CacheService.get resolves to
CSget(key) == CSgetOutcome(key).val

\* CacheService.set with its catch: `return success` (part_011 lines 36-50)
CSsetOutcome == TryCatch(ConnSet, FALSE)

\* CacheService.set on a key space (part_011 lines 36-50)
CSset(key, value, ttl) == CacheSet(generateKey(key), stringify(value), ttl)

\* the store as a caller finds it
StoreState == IF ~redisReady THEN "notReady" ELSE IF cmdFails THEN "error" ELSE "ready"

\* CacheService.del on a set of keys (part_011 lines 53-67)
CSdel(keys) ==
  IF Usable THEN DelStore(redis, {generateKey(k) : k \in keys}) ELSE redis

Begin(op, key, value, ttl, tag) ==
  [IdleClient EXCEPT !.op = op, !.key = key, !.value = value, !.ttl = ttl,
                     !.tag = tag, !.at = now, !.n = cs.n + 1,
                     !.storeState = StoreState]

CanBegin == cs.pc \in {"idle", "done"} /\ cs.n < MaxOps

Written(key, value, ttl) ==
  [lastWrite EXCEPT ![key] = [kind |-> "set", value |-> value, ttl |-> ttl,
                              at |-> now, seen |-> FALSE]]

Deleted(keys) ==
  [k \in CacheKeys |-> IF k \in keys THEN [NoWrite EXCEPT !.kind = "del"]
                       ELSE lastWrite[k]]

get(key) ==
  /\ CanBegin
  /\ LET got == CSget(key) IN
     /\ cs' = [Begin("get", key, NullV, 0, "") EXCEPT !.pc = "done", !.result = got,
                                                      !.threw = CSgetOutcome(key).threw]
     /\ lastWrite' = [lastWrite EXCEPT ![key].seen =
                        @ \/ (lastWrite[key].kind = "set" /\ got = lastWrite[key].value)]
  /\ UNCHANGED <<redis, scn>>
  /\ CacheFrame

set(key, value, ttl) ==
  /\ CanBegin
  /\ redis' = CSset(key, value, ttl)
  /\ cs' = [Begin("set", key, value, ttl, "") EXCEPT !.pc = "done",
                                                  !.ok = CSsetOutcome.val,
                                                  !.threw = CSsetOutcome.threw]
  /\ lastWrite' = Written(key, value, ttl)
  /\ scn' = NoScenario
  /\ CacheFrame

del(key) ==
  /\ CanBegin
  /\ redis' = CSdel({key})
  /\ cs' = [Begin("del", key, NullV, 0, "") EXCEPT !.pc = "done", !.ok = Usable]
  /\ lastWrite' = Deleted({key})
  /\ scn' = NoScenario
  /\ CacheFrame

\* setWithTags up to `await this.set(key, value, ttl)` (lines 162-165)
setWithTags(key, value, tag, ttl) ==
  /\ CanBegin
  /\ redis' = CSset(key, value, ttl)
  /\ cs' = [Begin("setWithTags", key, value, ttl, tag) EXCEPT !.pc = "swt_tag"]
  /\ lastWrite' = Written(key, value, ttl)
  /\ scn' = IF ttl = defaultTTL /\ scn.stage = 1 /\ key # scn.first
              THEN [scn EXCEPT !.stage = 2]
            ELSE IF ttl = defaultTTL /\ ~Live(redis, generateKey(tagKeyOf(tag)), now)
              THEN [stage |-> 1, first |-> key]
            ELSE NoScenario
  /\ CacheFrame

\* `taggedKeys = await this.get(tagKey) || []` and the includes test (lines 169-172)
swtGetTag ==
  /\ cs.pc = "swt_tag"
  /\ LET got == CSget(tagKeyOf(cs.tag))
         taggedKeys == IF got.t = "array" THEN got.items ELSE <<>>
     IN
     cs' = IF Includes(taggedKeys, cs.key)
             THEN [cs EXCEPT !.pc = "done", !.ok = TRUE, !.taggedKeys = taggedKeys]
             ELSE [cs EXCEPT !.pc = "swt_put", !.taggedKeys = Push(taggedKeys, cs.key)]
  /\ UNCHANGED <<redis, lastWrite, scn>>
  /\ CacheFrame

\* `await this.set(tagKey, taggedKeys, ttl)` (line 174)
swtSetTag ==
  /\ cs.pc = "swt_put"
  /\ redis' = CSset(tagKeyOf(cs.tag), Arr(cs.taggedKeys), cs.ttl)
  /\ cs' = [cs EXCEPT !.pc = "done", !.ok = TRUE]
  /\ UNCHANGED <<lastWrite, scn>>
  /\ CacheFrame

\* invalidateByTag up to `await this.get(tagKey)` and the array test (lines 186-191)
invalidateByTag(tag) ==
  /\ CanBegin
  /\ LET got == CSget(tagKeyOf(tag))
         q == Begin("invalidateByTag", "", NullV, 0, tag)
     IN
     cs' = IF got.t = "array"
             THEN [q EXCEPT !.pc = "inv_members", !.taggedKeys = got.items]
             ELSE [q EXCEPT !.pc = "done", !.ok = FALSE]
  /\ scn' = IF scn.stage = 2 THEN [scn EXCEPT !.stage = 3] ELSE NoScenario
  /\ UNCHANGED <<redis, lastWrite>>
  /\ CacheFrame

\* `await Promise.all(taggedKeys.map(key => this.del(key)))` (lines 191-192)
invDelMembers ==
  /\ cs.pc = "inv_members"
  /\ redis' = CSdel(Members(cs.taggedKeys))
  /\ lastWrite' = Deleted(Members(cs.taggedKeys))
  /\ cs' = [cs EXCEPT !.pc = "inv_tag"]
  /\ UNCHANGED scn
  /\ CacheFrame

\* `await this.del(tagKey)` and `return true` (lines 194-198)
invDelTag ==
  /\ cs.pc = "inv_tag"
  /\ redis' = CSdel({tagKeyOf(cs.tag)})
  /\ cs' = [cs EXCEPT !.pc = "done", !.ok = TRUE,
                      !.aliveAtTagDel = {k \in Members(cs.taggedKeys) :
                                           Live(redis, generateKey(k), now)}]
  /\ UNCHANGED <<lastWrite, scn>>
  /\ CacheFrame

\* what fetchFunction may resolve to: a value, null, or (FetchThrows) a rejection
FetchResults == CacheValues \cup {NullV}

\* getOrSet up to `await this.get(key)` and the `value !== null` test (lines 131-138)
getOrSet(key, ttl) ==
  /\ CanBegin
  /\ LET got == CSget(key)
         q == Begin("getOrSet", key, NullV, ttl, "")
     IN
     cs' = IF got # NullV
             THEN [q EXCEPT !.pc = "done", !.result = got]
             ELSE [q EXCEPT !.pc = "gos_fetch", !.missed = TRUE]
  /\ UNCHANGED <<redis, lastWrite, scn>>
  /\ CacheFrame

\* `value = await fetchFunction()` and the test before set (lines 141-147)
gosFetch ==
  /\ cs.pc = "gos_fetch"
  /\ \/ \E v \in FetchResults :
          cs' = IF v # NullV
                  THEN [cs EXCEPT !.pc = "gos_set", !.value = v, !.fetchCalls = @ + 1]
                  ELSE [cs EXCEPT !.pc = "done", !.result = v, !.fetchCalls = @ + 1]
     \/ cs' = [cs EXCEPT !.pc = "gos_catch", !.fetchCalls = @ + 1, !.fetchFailed = TRUE]
  /\ UNCHANGED <<redis, lastWrite, scn>>
  /\ CacheFrame

\* `await this.set(key, value, ttl)` and `return value` (lines 144-147)
gosSet ==
  /\ cs.pc = "gos_set"
  /\ redis' = CSset(cs.key, cs.value, cs.ttl)
  /\ lastWrite' = Written(cs.key, cs.value, cs.ttl)
  /\ cs' = [cs EXCEPT !.pc = "done", !.result = cs.value, !.stored = Usable]
  /\ scn' = NoScenario
  /\ CacheFrame

\* the catch block: `return await fetchFunction()`, a second rejection is rethrown
\* (lines 148-157)
gosCatch ==
  /\ cs.pc = "gos_catch"
  /\ \/ \E v \in FetchResults :
          cs' = [cs EXCEPT !.pc = "done", !.result = v, !.fetchCalls = @ + 1]
     \/ cs' = [cs EXCEPT !.pc = "done", !.error = "FetchError", !.fetchCalls = @ + 1]
  /\ UNCHANGED <<redis, lastWrite, scn>>
  /\ CacheFrame

\* ------------------------------------- Cache Layer: a second caller in flight
\* the same three steps of setWithTags, run by a second caller whose awaits
\* interleave with the first caller's
PeerFrame ==
  /\ UNCHANGED <<now, redisReady, cmdFails, outages, cs, lastWrite, scn>>
  /\ UNCHANGED gateVars
  /\ UNCHANGED factVars

\* setWithTags up to `await this.set(key, value, ttl)` (lines 162-165)
peerSetWithTags(key, value, tag, ttl) ==
  /\ peer.pc \in {"idle", "done"}
  /\ peer.n < MaxOps
  /\ redis' = CSset(key, value, ttl)
  /\ peer' = [IdleClient EXCEPT !.pc = "swt_tag", !.op = "setWithTags", !.key = key,
                                !.value = value, !.ttl = ttl, !.tag = tag, !.at = now,
                                !.n = peer.n + 1, !.storeState = StoreState]
  /\ PeerFrame

\* `taggedKeys = await this.get(tagKey) || []` and the includes test (lines 169-172)
peerGetTag ==
  /\ peer.pc = "swt_tag"
  /\ LET got == CSget(tagKeyOf(peer.tag))
         taggedKeys == IF got.t = "array" THEN got.items ELSE <<>>
     IN
     peer' = IF Includes(taggedKeys, peer.key)
               THEN [peer EXCEPT !.pc = "done", !.ok = TRUE, !.taggedKeys = taggedKeys]
               ELSE [peer EXCEPT !.pc = "swt_put", !.taggedKeys = Push(taggedKeys, peer.key)]
  /\ UNCHANGED redis
  /\ PeerFrame

\* `await this.set(tagKey, taggedKeys, ttl)` (line 174)
peerSetTag ==
  /\ peer.pc = "swt_put"
  /\ redis' = CSset(tagKeyOf(peer.tag), Arr(peer.taggedKeys), peer.ttl)
  /\ peer' = [peer EXCEPT !.pc = "done", !.ok = TRUE]
  /\ PeerFrame

\* ----------------------------------------------------------- Usage Recorder
\* userSchema.methods.incrementUsage / apiKeySchema.methods.incrementUsage,
\* up to the call of save(): the counters of the document in memory
incrementUsage(doc) ==
  [doc EXCEPT !.total_requests = @ + 1, !.monthly_requests = @ + 1]

recordError_consuming(doc) ==
  [doc EXCEPT !.error_count = @ + 1, !.monthly_requests = @ + 1]

\* apiKeySchema.methods.recordError, up to the call of save()
recordError(doc) == [doc EXCEPT !.error_count = @ + 1]

\* resetMonthlyUsage of either schema
resetMonthlyUsage(doc) ==
  [doc EXCEPT !.monthly_requests = 0, !.monthly_reset_date = nextMonth(now)]

\* the pre-save hook of either schema, as far as the usage fields go
preSave(doc) ==
  IF now >= doc.monthly_reset_date THEN resetMonthlyUsage(doc) ELSE doc

\* document.save(): the paths changed since the document was loaded are
\* written over the stored document, the others are left as stored
Save(stored, mem, loaded) ==
  [p \in DOMAIN stored |-> IF mem[p] # loaded[p] THEN mem[p] ELSE stored[p]]

\* trackRequestCompletion from its entry to its first await (lines 589-608):
\* the copy of the document that authentication attached to the request is
\* changed in place
trackRequestCompletion(q) ==
  IF q.status < 400
    THEN [q EXCEPT !.user = incrementUsage(@), !.recCalls = @ + 1]
    ELSE [q EXCEPT !.apiKey = recordError(@), !.recCalls = @ + 1]

\* the handler calls res.status(status).json(body) behind trackRequest
\* (lines 569-585): the res.json wrapper runs trackRequestCompletion and calls
\* the original json, which serialises the body and passes it to this.send,
\* that is, to the res.send wrapper, which runs trackRequestCompletion again.
\* Both calls run to their first await before any save proceeds. Whether the
\* second call's save() of the same document is rejected or accepted depends
\* on the document library.
respond(r) ==
  /\ req[r].pc = "handler"
  /\ \E status \in {200, 500} :
     \E parallel \in (IF status < 400 THEN BOOLEAN ELSE {FALSE}) :
       LET q == [req[r] EXCEPT !.status = status,
                               !.userLoaded = req[r].user,
                               !.apiKeyLoaded = req[r].apiKey,
                               !.parallelSave = parallel]
           viaJson == trackRequestCompletion(q)
           viaSend == trackRequestCompletion(viaJson)
       IN req' = [req EXCEPT ![r] =
                    [viaSend EXCEPT !.pc = IF status < 400 THEN "rec_user"
                                                          ELSE "rec_error"]]
  /\ UNCHANGED <<now, redisReady, cmdFails, outages, redis, apiKeys, users, arrived, admitted>>
  /\ UNCHANGED factVars
  /\ UNCHANGED cacheVars

\* `await req.user.incrementUsage()` completes: pre-save hook, write; the
\* recording goes on to req.apiKey.incrementUsage (lines 594-600)
userSaved(r) ==
  /\ req[r].pc = "rec_user"
  /\ LET mem == preSave(req[r].user)
         uid == mem.id
         bumped == incrementUsage(req[r].apiKey)
     IN
     /\ users' = IF uid \in DOMAIN users
                   THEN [users EXCEPT ![uid] = Save(users[uid], mem, req[r].userLoaded)]
                   ELSE users
     /\ req' = [req EXCEPT ![r].pc = "rec_key",
                           ![r].user = mem,
                           ![r].apiKey = IF req[r].parallelSave
                                           THEN incrementUsage(bumped) ELSE bumped]
  /\ UNCHANGED <<now, redisReady, cmdFails, outages, redis, apiKeys, arrived, admitted>>
  /\ UNCHANGED factVars
  /\ UNCHANGED cacheVars

\* the save of the credential completes: pre-save hook, write
KeySave(r) ==
  /\ LET mem == preSave(req[r].apiKey)
         kid == mem.id
     IN
     /\ apiKeys' = IF kid \in DOMAIN apiKeys
                     THEN [apiKeys EXCEPT ![kid] = Save(apiKeys[kid], mem, req[r].apiKeyLoaded)]
                     ELSE apiKeys
     /\ req' = [req EXCEPT ![r].pc = "recorded", ![r].apiKey = mem]
  /\ UNCHANGED <<now, redisReady, cmdFails, outages, redis, users, arrived, admitted>>
  /\ UNCHANGED factVars
  /\ UNCHANGED cacheVars

\* `await req.apiKey.incrementUsage(endpoint)` completes (lines 599-602)
keySaved(r) == req[r].pc = "rec_key" /\ KeySave(r)

\* `await req.apiKey.recordError()` completes (lines 605-607)
errorSaved(r) == req[r].pc = "rec_error" /\ KeySave(r)

\* the identity's plan is changed and saved elsewhere: updatePlanLimits
upgradePlan(u) ==
  /\ users[u].plan = "basic"
  /\ users' = [users EXCEPT ![u].plan = "premium",
                            ![u].monthly_limit = PlanMonthly("premium")]
  /\ UNCHANGED <<now, redisReady, cmdFails, outages, redis, apiKeys, req, arrived, admitted>>
  /\ UNCHANGED factVars
  /\ UNCHANGED cacheVars

\* ------------------------------------------- Fact Resolver: the mutations
\* clearFactCaches: the three cache.del calls are issued in one synchronous
\* pass of cacheKeys.map, so no other command of the process comes between
clearFactCaches(store, category) ==
  IF Usable
    THEN DelStore(store, {"random_fact_any", randomKey(category), categoryKey(category)})
    ELSE store

\* the ids a mutation names: one that is stored and one that is not
MutatedIds == {"S1", "S9"}

\* the bodies updateFact is called with: a move to another category, and the
\* withdrawal of the verification
UpdatedData == {[category |-> "general"], [verified |-> FALSE]}

\* findByIdAndUpdate's $set of the given fields
Updated(f, d) == [k \in DOMAIN f |-> IF k \in DOMAIN d THEN d[k] ELSE f[k]]

findById(id) ==
  IF \E f \in facts : f.id = id THEN CHOOSE f \in facts : f.id = id ELSE NoFact

\* deleteFact up to `await Fact.findById(id)`
deleteFact(t) ==
  /\ task[t].pc \in {"idle", "done"}
  /\ calls < MaxCalls
  /\ calls' = calls + 1
  /\ \E id \in MutatedIds :
       task' = [task EXCEPT ![t] =
                  [IdleTask EXCEPT !.pc = "df_found", !.op = "deleteFact",
                                   !.fact = findById(id), !.storeQueries = 1]]
  /\ UNCHANGED <<redis, facts>>
  /\ TaskFrame

\* deleteFact from the null test to `await Fact.findByIdAndDelete(id)`
dfFound(t) ==
  /\ task[t].pc = "df_found"
  /\ LET q == task[t] IN
     IF q.fact = NoFact
       THEN /\ task' = [task EXCEPT ![t] = Throw(q, "Fact not found")]
            /\ UNCHANGED facts
       ELSE /\ facts' = {f \in facts : f.id # q.fact.id}
            /\ task' = [task EXCEPT ![t].pc = "df_deleted", ![t].storeQueries = @ + 1]
  /\ UNCHANGED <<redis, calls>>
  /\ TaskFrame

\* deleteFact: clearFactCaches(fact.category) and the return
dfDeleted(t) ==
  /\ task[t].pc = "df_deleted"
  /\ redis' = clearFactCaches(redis, task[t].fact.category)
  /\ task' = [task EXCEPT ![t].pc = "done", ![t].cacheCalls = @ + 3]
  /\ UNCHANGED <<facts, calls>>
  /\ TaskFrame

\* updateFact up to `await Fact.findByIdAndUpdate(id, updatedData, { new: true })`
updateFact(t) ==
  /\ task[t].pc \in {"idle", "done"}
  /\ calls < MaxCalls
  /\ calls' = calls + 1
  /\ \E id \in MutatedIds, updatedData \in UpdatedData :
       LET found == findById(id)
           updatedFact == IF found = NoFact THEN NoFact ELSE Updated(found, updatedData)
       IN
       /\ facts' = IF found = NoFact THEN facts ELSE (facts \ {found}) \cup {updatedFact}
       /\ task' = [task EXCEPT ![t] =
                     [IdleTask EXCEPT !.pc = "uf_updated", !.op = "updateFact",
                                      !.fact = updatedFact, !.storeQueries = 1]]
  /\ UNCHANGED redis
  /\ TaskFrame

\* updateFact: the null test, clearFactCaches(updatedFact.category) and the return
ufUpdated(t) ==
  /\ task[t].pc = "uf_updated"
  /\ LET q == task[t] IN
     IF q.fact = NoFact
       THEN /\ task' = [task EXCEPT ![t] = Throw(q, "Fact not found")]
            /\ UNCHANGED redis
       ELSE /\ redis' = clearFactCaches(redis, q.fact.category)
            /\ task' = [task EXCEPT ![t].pc = "done", ![t].cacheCalls = @ + 3]
  /\ UNCHANGED <<facts, calls>>
  /\ TaskFrame

\* ------------------------------------------------------------- environment
Tick ==
  /\ now + TickSeconds <= MaxTime
  /\ now' = now + TickSeconds
  /\ redis' = Purge(redis, now')
  /\ UNCHANGED <<redisReady, cmdFails, outages, apiKeys, users, req, arrived, admitted>>
  /\ UNCHANGED factVars
  /\ UNCHANGED cacheVars

\* a command error: the connection still counts as ready, commands are rejected
RedisFault ==
  /\ Usable
  /\ outages < MaxOutages
  /\ cmdFails' = TRUE
  /\ outages' = outages + 1
  /\ UNCHANGED <<now, redisReady, redis, apiKeys, users, req, arrived, admitted>>
  /\ UNCHANGED factVars
  /\ UNCHANGED cacheVars

\* 'error' / 'close' events of the ioredis client
RedisDown ==
  /\ redisReady
  /\ cmdFails \/ outages < MaxOutages
  /\ redisReady' = FALSE
  /\ cmdFails' = FALSE
  /\ outages' = IF cmdFails THEN outages ELSE outages + 1
  /\ UNCHANGED <<now, redis, apiKeys, users, req, arrived, admitted>>
  /\ UNCHANGED factVars
  /\ UNCHANGED cacheVars

\* 'connect' event once the client is ready again, or the server answers again
RedisUp ==
  /\ ~Usable
  /\ redisReady' = TRUE
  /\ cmdFails' = FALSE
  /\ UNCHANGED <<now, outages, redis, apiKeys, users, req, arrived, admitted>>
  /\ UNCHANGED factVars
  /\ UNCHANGED cacheVars

\* apiKeySchema.methods.revoke / suspend / activate
SetKeyStatus(k, st) ==
  /\ k \in DOMAIN apiKeys
  /\ apiKeys[k].status # st
  /\ apiKeys' = [apiKeys EXCEPT ![k].status = st]
  /\ UNCHANGED <<now, redisReady, cmdFails, outages, redis, users, req, arrived, admitted>>
  /\ UNCHANGED factVars
  /\ UNCHANGED cacheVars

revoke(k) == SetKeyStatus(k, "revoked")
suspend(k) == SetKeyStatus(k, "suspended")
activate(k) == SetKeyStatus(k, "active")

\* the TTL index on `expiry` (expireAfterSeconds: 0): MongoDB drops the document
ttlIndex(k) ==
  /\ k \in DOMAIN apiKeys
  /\ apiKeys[k].expiry # NoExpiry
  /\ now > apiKeys[k].expiry
  /\ apiKeys' = [x \in DOMAIN apiKeys \ {k} |-> apiKeys[x]]
  /\ UNCHANGED <<now, redisReady, cmdFails, outages, redis, users, req, arrived, admitted>>
  /\ UNCHANGED factVars
  /\ UNCHANGED cacheVars

Next ==
  \/ \E r \in Reqs, secret \in ApiKeyIds : apiKeyAuth(r, secret, "ip1", "o1")
  \/ \E r \in Reqs : rlGet(r)
  \/ \E r \in Reqs : rlCheck(r)
  \/ \E r \in Reqs : rlExpire(r)
  \/ Tick
  \/ RedisDown
  \/ RedisUp

Spec == Init /\ [][Next]_vars

NextAuth ==
  \/ \E secret \in Secrets \cup {""}, ip \in IPs, origin \in Origins :
       apiKeyAuth("r1", secret, ip, origin)
  \/ rlGet("r1")
  \/ rlCheck("r1")
  \/ rlExpire("r1")
  \/ Tick
  \/ revoke("kA")
  \/ suspend("kA")
  \/ activate("kA")
  \/ ttlIndex("kA")

SpecAuth == InitAuth /\ [][NextAuth]_vars

\* the resolver: empty cache, a store with or without a verified science fact
InitFact ==
  /\ InitCommon
  /\ GateIdle
  /\ apiKeys = [k \in ApiKeyIds |-> KeyDoc(k, NoExpiry, {}, 0)]
  /\ users = [u \in UserIds |-> UserDoc(u, "basic", "active", 0)]
  /\ facts \in {{}, {StoredS1}, {StoredS2}}
  /\ fallbackEnabled \in BOOLEAN
  /\ task = [t \in Tasks |-> IdleTask]
  /\ calls = 0
  /\ CacheIdle

NextFact ==
  \/ getRandomFact("t1")
  \/ getFactByCategory("t1")
  \/ grfCached("t1")
  \/ catCached("t1")
  \/ catFound("t1")
  \/ grfSampled("t1")
  \/ genCached("t1")
  \/ genAnswered("t1")
  \/ genCalled("t1")
  \/ genStored("t1")
  \/ grfAdded("t1")
  \/ catSet("t1")
  \/ Tick
  \/ RedisDown
  \/ RedisUp

SpecFact == InitFact /\ [][NextFact]_vars

\* the steps the resolver takes by itself: the continuation after an awaited
\* cache or store command, each of which completes or times out in the client
\* (commandTimeout, socketTimeoutMS)
ResolverStep ==
  \/ grfCached("t1")
  \/ catCached("t1")
  \/ catFound("t1")
  \/ grfSampled("t1")
  \/ genCached("t1")
  \/ genCalled("t1")
  \/ genStored("t1")
  \/ grfAdded("t1")
  \/ catSet("t1")

\* the resolver under the event loop's scheduling: a continuation whose
\* awaited command has completed is run; nothing obliges the generator to
\* answer
SpecFactLive == InitFact /\ [][NextFact]_vars /\ WF_vars(ResolverStep)

\* the Cache Layer driven by one client, one call at a time
InitCache ==
  /\ InitCommon
  /\ GateIdle
  /\ FactIdle
  /\ CacheIdle
  /\ apiKeys = [k \in ApiKeyIds |-> KeyDoc(k, NoExpiry, {}, 0)]
  /\ users = [u \in UserIds |-> UserDoc(u, "basic", "active", 0)]

NextCache ==
  \/ \E key \in CacheKeys : get(key)
  \/ \E key \in CacheKeys, value \in CacheValues, ttl \in TtlArgs : set(key, value, ttl)
  \/ \E key \in CacheKeys : del(key)
  \/ Tick
  \/ RedisDown
  \/ RedisUp

SpecCache == InitCache /\ [][NextCache]_vars

\* the tag index of the Cache Layer, one client, one call at a time
NextTags ==
  \/ \E key \in CacheKeys, tag \in Tags, ttl \in TtlArgs :
       setWithTags(key, Obj("a"), tag, ttl)
  \/ swtGetTag
  \/ swtSetTag
  \/ \E tag \in Tags : invalidateByTag(tag)
  \/ invDelMembers
  \/ invDelTag
  \/ \E key \in CacheKeys : get(key)
  \/ \E key \in CacheKeys : del(key)
  \/ Tick
  \/ RedisDown
  \/ RedisUp

SpecTags == InitCache /\ [][NextTags]_vars

\* getOrSet on the Cache Layer, one client, one call at a time
NextGetOrSet ==
  \/ \E key \in CacheKeys, ttl \in {300, defaultTTL} : getOrSet(key, ttl)
  \/ gosFetch
  \/ gosSet
  \/ gosCatch
  \/ Tick
  \/ RedisDown
  \/ RedisUp

SpecGetOrSet == InitCache /\ [][NextGetOrSet]_vars

\* the Cache Layer over a store that was never connected, loses its
\* connection, or rejects commands
InitStoreFaults ==
  /\ now = 0
  /\ redisReady \in BOOLEAN
  /\ cmdFails = FALSE
  /\ outages = IF redisReady THEN 0 ELSE 1
  /\ redis = <<>>
  /\ GateIdle
  /\ FactIdle
  /\ CacheIdle
  /\ apiKeys = [k \in ApiKeyIds |-> KeyDoc(k, NoExpiry, {}, 0)]
  /\ users = [u \in UserIds |-> UserDoc(u, "basic", "active", 0)]

NextStoreFaults ==
  \/ \E key \in CacheKeys : get(key)
  \/ \E key \in CacheKeys, ttl \in {300, defaultTTL} : set(key, Obj("a"), ttl)
  \/ Tick
  \/ RedisFault
  \/ RedisDown
  \/ RedisUp

SpecStoreFaults == InitStoreFaults /\ [][NextStoreFaults]_vars

\* the limiter over a counter store that loses its connection or rejects
\* commands while requests of one credential are in flight
NextLimiterFaults ==
  \/ \E r \in Reqs : apiKeyAuth(r, "kA", "ip1", "o1")
  \/ \E r \in Reqs : rlGet(r)
  \/ \E r \in Reqs : rlCheck(r)
  \/ \E r \in Reqs : rlExpire(r)
  \/ Tick
  \/ RedisFault
  \/ RedisDown
  \/ RedisUp

SpecLimiterFaults == Init /\ [][NextLimiterFaults]_vars

\* requests of one credential through authentication, the limiter, the handler
\* and the recording, across a month boundary
InitUsage ==
  /\ InitCommon
  /\ GateIdle
  /\ FactIdle
  /\ CacheIdle
  /\ apiKeys = [k \in ApiKeyIds |-> KeyDoc(k, NoExpiry, {}, 0)]
  /\ \E used \in {0, basicMonthly} :
       users = [u \in UserIds |-> UserDoc(u, "basic", "active", used)]

NextUsage ==
  \/ apiKeyAuth("r1", "kA", "ip1", "o1")
  \/ rlGet("r1")
  \/ rlCheck("r1")
  \/ rlExpire("r1")
  \/ respond("r1")
  \/ userSaved("r1")
  \/ keySaved("r1")
  \/ errorSaved("r1")
  \/ upgradePlan("u1")
  \/ Tick

SpecUsage == InitUsage /\ [][NextUsage]_vars

\* two requests of one credential in flight at the same time, within one
\* month, while the identity's plan may be upgraded
NextUsageConc ==
  \/ \E r \in Reqs : apiKeyAuth(r, "kA", "ip1", "o1")
  \/ \E r \in Reqs : rlGet(r)
  \/ \E r \in Reqs : rlCheck(r)
  \/ \E r \in Reqs : rlExpire(r)
  \/ \E r \in Reqs : respond(r)
  \/ \E r \in Reqs : userSaved(r)
  \/ \E r \in Reqs : keySaved(r)
  \/ \E r \in Reqs : errorSaved(r)
  \/ upgradePlan("u1")

SpecUsageConc == InitUsage /\ [][NextUsageConc]_vars

\* ------------------------------------------------ resolutions and mutations
\* one resolver and one mutator call at a time, interleaved at their awaits;
\* the store answers every command
InitMutate ==
  /\ InitCommon
  /\ GateIdle
  /\ apiKeys = [k \in ApiKeyIds |-> KeyDoc(k, NoExpiry, {}, 0)]
  /\ users = [u \in UserIds |-> UserDoc(u, "basic", "active", 0)]
  /\ facts \in {{}, {StoredS1}}
  /\ fallbackEnabled \in BOOLEAN
  /\ task = [t \in Tasks |-> IdleTask]
  /\ calls = 0
  /\ CacheIdle

NextMutate ==
  \/ getRandomFact("t1")
  \/ getFactByCategory("t1")
  \/ grfCached("t1")
  \/ catCached("t1")
  \/ catFound("t1")
  \/ grfSampled("t1")
  \/ genCached("t1")
  \/ genAnswered("t1")
  \/ genCalled("t1")
  \/ genStored("t1")
  \/ grfAdded("t1")
  \/ catSet("t1")
  \/ deleteFact("t2")
  \/ dfFound("t2")
  \/ dfDeleted("t2")
  \/ updateFact("t2")
  \/ ufUpdated("t2")

SpecMutate == InitMutate /\ [][NextMutate]_vars

\* ------------------------------------------------ two callers of setWithTags
\* two requests tag their keys at the same time; the store answers every
\* command and no entry expires meanwhile
NextTagsConc ==
  \/ \E key \in CacheKeys, tag \in Tags : setWithTags(key, Obj("a"), tag, defaultTTL)
  \/ swtGetTag
  \/ swtSetTag
  \/ \E key \in CacheKeys, tag \in Tags : peerSetWithTags(key, Obj("a"), tag, defaultTTL)
  \/ peerGetTag
  \/ peerSetTag

SpecTagsConc == InitCache /\ [][NextTagsConc]_vars

\* ================================================================== claims
LimitOf(r) == getRateLimitForUser(req[r].user, req[r].apiKey).max

Reserved(r) == req[r].pc \in {"rl_expire", "handler"}

RateDenied(r) ==
  req[r].pc = "responded" /\ req[r].error_code = "USER_RATE_LIMIT_EXCEEDED"

\* C1: with the counter store available, a request of a credential with
\* effective limit L that reaches the rate limiter after L requests have
\* passed it in the current 15-minute window is denied with 429 (usage >=
\* limit, so nothing remains); the counter it is tested against counts the
\* requests of its own window only, so after windowStart + 15 min requests
\* pass again.
C1_DeniedAfterLimitUntilRollover ==
  outages = 0 =>
    \A r \in Reqs :
      /\ Reserved(r) => req[r].seenAdmitted < LimitOf(r)
      /\ RateDenied(r) =>
           /\ req[r].status = 429
           /\ req[r].seenAdmitted >= LimitOf(r)
           /\ max0(LimitOf(r) - req[r].requestCount) = 0
      /\ req[r].pc = "rl_check" => req[r].requestCount = req[r].seenAdmitted

\* a request is denied in the first window and one of the same credential is
\* let through in the next window although the first window was used up
C1_Witness ==
  /\ outages = 0
  /\ \E r, q \in Reqs :
       /\ RateDenied(r) /\ req[r].windowStart = 0
       /\ req[q].pc = "handler" /\ req[q].windowStart = windowMinutes * 60
       /\ req[q].apiKey.id = req[r].apiKey.id
       /\ CountOf(admitted, rateKey(req[q].apiKey.id, 0)) >= LimitOf(q)

\* C2: in no interleaving do more requests of one credential pass the rate
\* limiter in one window than the limit allows (store available).
C2_NeverMoreThanLimitAdmitted ==
  outages = 0 =>
    \A r \in Reqs :
      Reserved(r) => CountOf(admitted, req[r].cacheKey) <= LimitOf(r)

\* the identity that owns the credential a request presented
OwnerOf(secret) ==
  users[apiKeys[CHOOSE k \in DOMAIN apiKeys : apiKeys[k].key = secret].userId]

HasOwner(secret) == \E k \in DOMAIN apiKeys : apiKeys[k].key = secret

UnlimitedRequest(r) ==
  /\ req[r].pc # "idle"
  /\ HasOwner(req[r].secret)
  /\ OwnerOf(req[r].secret).monthly_limit = Unlimited

\* C3 (as claimed): a request of an identity with the unlimited sentinel is
\* never denied and never reads or increments the counter store.
C3_UnlimitedNeverTouchesCounterStore ==
  \A r \in Reqs :
    UnlimitedRequest(r) => (req[r].status # 429 /\ req[r].storeOps = 0)

\* C3 (amended): the monthly quota check of an identity with the unlimited
\* sentinel never denies, whatever the consumed count, and the AuthGate issues
\* no counter-store command; the 15-minute rate limiter still counts such a
\* request and denies it only when its counter has reached the 15-minute limit.
C3_UnlimitedMonthlyQuotaNeverDenies ==
  \A r \in Reqs :
    UnlimitedRequest(r) =>
      /\ req[r].error_code # "LIMIT_EXCEEDED"
      /\ req[r].pc \in {"rateLimit"} => req[r].storeOps = 0
      /\ (req[r].pc = "responded" /\ ~RateDenied(r)) => req[r].storeOps = 0
      /\ RateDenied(r) => req[r].requestCount >= LimitOf(r)

\* a platinum identity that has consumed 100000 requests this month passes
\* the AuthGate and its request is counted by the rate limiter
C3_Witness ==
  \E r \in Reqs :
    /\ UnlimitedRequest(r)
    /\ OwnerOf(req[r].secret).monthly_requests = premiumMonthly
    /\ req[r].pc = "handler"
    /\ req[r].storeOps > 0

\* a resolution whose lookup of the request's key returned an entry, forceNew unset
ServedFromCache(t) ==
  /\ task[t].pc # "idle"
  /\ task[t].cachedFact # Null
  /\ ~task[t].forceNew

\* C4: when the lookup of the request's key returns an entry and forceNew is
\* not set, getRandomFact / getFactByCategory return the fact that entry
\* denotes, and the request queries neither the persistent store nor the
\* generator.
C4_CachedFactShortCircuits ==
  \A t \in Tasks :
    ServedFromCache(t) =>
      /\ task[t].storeQueries = 0
      /\ task[t].genCalls = 0
      /\ task[t].pc = "done" =>
           /\ task[t].error = ""
           /\ task[t].source = "cache"
           /\ task[t].fact = JSONparse(task[t].cachedFact)

C4_Witness ==
  \E t \in Tasks :
    /\ ServedFromCache(t)
    /\ task[t].pc = "done"
    /\ task[t].held
    /\ task[t].source = "cache"
    /\ task[t].fact.category = "science"

\* a finished science resolution that started on an empty cache, found no
\* verified science record, and whose generator call answered, with the
\* fallback feature on and Redis reachable throughout
FallbackCase(t) ==
  /\ task[t].pc = "done"
  /\ task[t].category = "science"
  /\ task[t].cacheEmpty
  /\ task[t].storeMiss
  /\ ~task[t].excludeAI
  /\ fallbackEnabled
  /\ ~task[t].genFailed
  /\ outages = 0

\* C5: with an empty cache, no verified science record in the store and the
\* fallback feature enabled, a science resolution returns a generated fact,
\* and at the moment it returns the cache holds a live entry under the key
\* the request looked up.
C5_FallbackReturnsGeneratedAndCaches ==
  \A t \in Tasks :
    FallbackCase(t) =>
      /\ task[t].error = ""
      /\ task[t].source = "generated"
      /\ task[t].fact = parseFactResponse("science")
      /\ task[t].genCalls = 1
      /\ task[t].cachedAtReturn
      /\ Live(redis, task[t].cacheKey, now) =>
           redis[task[t].cacheKey].val = JSONstringify(task[t].fact)

C5_Witness ==
  \E t \in Tasks :
    /\ FallbackCase(t)
    /\ task[t].op = "random"
    /\ task[t].cachedAtReturn
    /\ task[t].cacheKey = "random_fact_science"
    /\ Live(redis, "random_fact_science", now)

\* C6: a request whose category is outside the category enum is rejected
\* with InvalidCategory before any cache read, cache write or store access
\* has been performed for it.
C6_InvalidCategoryBeforeAnyAccess ==
  \A t \in Tasks :
    (task[t].pc = "done" /\ task[t].category # "" /\ ~isValidCategory(task[t].category)) =>
      /\ task[t].error = "InvalidCategory"
      /\ task[t].cacheCalls = 0
      /\ task[t].storeQueries = 0

Inactive(r) == req[r].credStatus \in {"suspended", "revoked"} \/ req[r].credExpired

\* C7: a request presenting a suspended, revoked or expired credential is
\* never authorized: apiKeyAuth answers it with an error and sets neither
\* req.user nor req.apiKey, whatever the status of the owning identity.
C7_InactiveCredentialNeverAuthorizes ==
  \A r \in Reqs :
    Inactive(r) =>
      /\ req[r].pc = "responded"
      /\ req[r].status >= 400
      /\ req[r].user = NoDoc
      /\ req[r].apiKey = NoDoc

\* a revoked credential of an active identity has been presented and rejected
C7_Witness ==
  \E r \in Reqs :
    /\ req[r].credStatus = "revoked"
    /\ req[r].pc = "responded"
    /\ HasOwner(req[r].secret)
    /\ OwnerOf(req[r].secret).status = "active"

GetAfterSet ==
  /\ cs.op = "get"
  /\ cs.pc = "done"
  /\ lastWrite[cs.key].kind = "set"
  /\ outages = 0

\* the get was issued before ttl seconds had passed since the set
WithinTtl == cs.at < lastWrite[cs.key].at + lastWrite[cs.key].ttl

\* JSON.parse(JSON.stringify(v)) gives v back
RoundTrips(v) == parse(stringify(v)) = v

\* C9 as stated: for every key, value and ttl, get after set returns the
\* value before ttl has elapsed and Absent once ttl has elapsed.
C9_GetAfterSetEveryValueAndTtl ==
  GetAfterSet =>
    cs.result = IF WithinTtl THEN lastWrite[cs.key].value ELSE NullV

\* C9: for every key, every value that JSON.stringify / JSON.parse reproduce
\* and every ttl > 0 (or omitted), get after set returns the value before ttl
\* has elapsed and Absent once it has; a ttl of 0 stores the entry without
\* expiry, and any other value comes back as JSON.parse(JSON.stringify(v)).
C9_GetAfterSetWithinPositiveTtl ==
  GetAfterSet =>
    /\ (lastWrite[cs.key].ttl > 0 /\ RoundTrips(lastWrite[cs.key].value)) =>
         cs.result = IF WithinTtl THEN lastWrite[cs.key].value ELSE NullV
    /\ cs.result = IF lastWrite[cs.key].ttl > 0 /\ ~WithinTtl THEN NullV
                   ELSE parse(stringify(lastWrite[cs.key].value))

C9_Witness ==
  /\ GetAfterSet
  /\ lastWrite[cs.key].ttl > 0
  /\ RoundTrips(lastWrite[cs.key].value)
  /\ lastWrite[cs.key].seen
  /\ ~WithinTtl
  /\ cs.result = NullV

\* setWithTags(k1, v1, [t]), setWithTags(k2, v2, [t]) and invalidateByTag(t),
\* with the default ttl and no other write in between, have completed in that
\* order, starting without a tag entry and with Redis reachable throughout
TagScenarioDone ==
  /\ scn.stage = 3
  /\ cs.pc = "done"
  /\ outages = 0

\* C10: after setWithTags(k1, v1, [t]), setWithTags(k2, v2, [t]) and
\* invalidateByTag(t) have completed in that order, get(k1) and get(k2) return
\* Absent and the tag's member list is gone; when invalidateByTag deletes the
\* member list, the member keys are already deleted.
C10_InvalidateByTagRemovesMembersThenTag ==
  /\ TagScenarioDone =>
       /\ \A k \in CacheKeys : CSget(k) = NullV
       /\ \A tag \in Tags : ~Live(redis, generateKey(tagKeyOf(tag)), now)
       /\ cs.op = "get" => cs.result = NullV
  /\ (cs.op = "invalidateByTag" /\ cs.pc = "done" /\ cs.ok /\ outages = 0) =>
       cs.aliveAtTagDel = {}

C10_Witness ==
  /\ TagScenarioDone
  /\ cs.op = "invalidateByTag"
  /\ cs.ok
  /\ Members(cs.taggedKeys) = CacheKeys
  /\ \A k \in CacheKeys : lastWrite[k].kind = "del"

\* a completed getOrSet that missed the cache
MissedGetOrSet == cs.op = "getOrSet" /\ cs.pc = "done" /\ cs.missed

\* C11: on a cache miss getOrSet invokes the populate function exactly once
\* within the call, also when it fails; a populate failure reaches the caller
\* as an error and nothing is stored under the key.
C11_PopulateExactlyOnce ==
  MissedGetOrSet =>
    /\ cs.fetchCalls = 1
    /\ cs.fetchFailed => (cs.error = "FetchError" /\ ~cs.stored)

\* C12: whatever the state of the backing store (never connected, not ready,
\* connection closed, command error), get and set return to their caller
\* without an exception; when the store cannot serve the command, get returns
\* Absent and set returns false.
C12_CacheNeverThrows ==
  (cs.pc = "done" /\ cs.op \in {"get", "set"}) =>
    /\ ~cs.threw
    /\ cs.storeState # "ready" =>
         /\ cs.op = "get" => cs.result = NullV
         /\ cs.op = "set" => ~cs.ok

\* a get that found the connection ready but had its command rejected, for a
\* key the store holds
C12_Witness ==
  /\ cs.pc = "done"
  /\ cs.op = "get"
  /\ cs.storeState = "error"
  /\ Live(redis, generateKey(cs.key), now)
  /\ cs.result = NullV
  /\ ~cs.threw

\* C13: a request whose counter read or counter increment failed (store not
\* ready, or the command rejected) is never answered by the limiter, neither
\* with 429 nor with an error: it goes on to the handler.
C13_LimiterFailsOpen ==
  \A r \in Reqs :
    (req[r].readFailed \/ req[r].incrFailed) =>
      /\ req[r].pc \in {"rl_check", "rl_expire", "handler"}
      /\ req[r].status = 0
      /\ req[r].error_code = ""

\* a request admitted to the handler although its counter read failed while
\* the stored counter of its window had reached the limit
C13_Witness ==
  \E r \in Reqs :
    /\ req[r].pc = "handler"
    /\ req[r].readFailed
    /\ req[r].cacheKey \in DOMAIN redis
    /\ parseInt(redis[req[r].cacheKey].val) >=
         getRateLimitForUser(req[r].user, req[r].apiKey).max


\* C14: when the generator succeeded and the write of the generated fact to
\* the persistent store failed, the resolution still returns the generated
\* fact and reports no error.
C14_PersistFailureStillReturnsFact ==
  (task["t1"].pc = "done" /\ task["t1"].persistFailed) =>
    /\ task["t1"].error = ""
    /\ task["t1"].fact # NoFact
    /\ task["t1"].source = "generated"


\* C15: every resolution that reaches GENERATE eventually terminates: a
\* generator that does not answer is cut off, and the resolution ends.
C15_GenerateTerminates ==
  (task["t1"].pc = "gen_waiting") ~> (task["t1"].pc = "done")


\* C16: for a request that went through trackRequest, the recording ran
\* exactly once; a successful request raised the stored total of its identity
\* and of its credential by exactly 1.
C16_RecordedExactlyOnce ==
  req["r1"].pc = "recorded" =>
    /\ req["r1"].recCalls = 1
    /\ req["r1"].status < 400 =>
         /\ users["u1"].total_requests = req["r1"].userLoaded.total_requests + 1
         /\ apiKeys["kA"].total_requests = req["r1"].apiKeyLoaded.total_requests + 1


\* the stored quota counters of the identity and of the credential of request
\* r1 equal the ones loaded at its authentication
QuotaCountersAsLoaded ==
  /\ users["u1"].total_requests = req["r1"].userLoaded.total_requests
  /\ users["u1"].monthly_requests = req["r1"].userLoaded.monthly_requests
  /\ apiKeys["kA"].total_requests = req["r1"].apiKeyLoaded.total_requests
  /\ apiKeys["kA"].monthly_requests = req["r1"].apiKeyLoaded.monthly_requests

\* C17 as stated: once a request that ended with an error status is recorded,
\* the identity's and the credential's total and monthly counters are what
\* they were.
C17_ErrorLeavesQuotaCountersUnchanged ==
  (req["r1"].pc = "recorded" /\ req["r1"].status >= 400) => QuotaCountersAsLoaded

\* C17: the step that records a request with an error status raises the
\* credential's error counter, leaves the identity and the credential's total
\* alone, and leaves the credential's monthly counter alone unless the
\* credential's reset date has passed, in which case the save resets it to 0;
\* a rejection by the AuthGate changes no stored record at all.
C17_ErrorNeverConsumesQuota ==
  [][/\ (req["r1"].pc = "rec_error" /\ req'["r1"].pc = "recorded") =>
          /\ users' = users
          /\ apiKeys'["kA"].error_count > apiKeys["kA"].error_count
          /\ apiKeys'["kA"].total_requests = apiKeys["kA"].total_requests
          /\ IF now >= apiKeys["kA"].monthly_reset_date
               THEN apiKeys'["kA"].monthly_requests = 0
               ELSE apiKeys'["kA"].monthly_requests = apiKeys["kA"].monthly_requests
     /\ (req'["r1"].pc = "responded" /\ req'["r1"] # req["r1"]) =>
          /\ users' = users
          /\ apiKeys' = apiKeys]_vars

\* an error recorded in a new month for a credential that had consumed quota
\* in the month before
C17_Witness ==
  /\ req["r1"].pc = "recorded"
  /\ req["r1"].status >= 400
  /\ req["r1"].apiKeyLoaded.monthly_requests > 0
  /\ req["r1"].apiKeyLoaded.monthly_reset_date <= now
  /\ apiKeys["kA"].error_count > 0
  /\ apiKeys["kA"].monthly_requests = 0


\* two requests have arrived, one per slot, and both were answered with
\* success and are recorded
BothRecorded ==
  /\ arrived = 2
  /\ \A r \in Reqs : req[r].pc = "recorded" /\ req[r].status < 400

\* the identity's monthly counter before either of the two requests
MonthlyBefore ==
  IF req["r1"].userLoaded.monthly_requests <= req["r2"].userLoaded.monthly_requests
    THEN req["r1"].userLoaded.monthly_requests
    ELSE req["r2"].userLoaded.monthly_requests

\* C18: once N = 2 successful requests of one identity are recorded, under
\* any interleaving, the identity's stored monthly counter has grown by
\* exactly 2.
C18_ConcurrentRecordingCountsEach ==
  BothRecorded => users["u1"].monthly_requests = MonthlyBefore + 2


\* C19: a request that arrives when the identity's monthly window is over is
\* never refused on the count of the window that is over: the window is reset
\* before canMakeRequest reads the count.
C19_ResetBeforeQuotaCheck ==
  [][(req'["r1"] # req["r1"] /\ req'["r1"].error_code = "LIMIT_EXCEEDED")
       => now < users["u1"].monthly_reset_date]_vars


\* C20: a request the limiter admits right after its own increment reports
\* remaining = max(0, limit - count), count being the window counter as that
\* increment left it, and resetAt = windowStart + windowDuration; also when
\* other requests of the credential are in flight.
C20_RemainingAfterOwnIncrement ==
  [][\A r \in Reqs :
       (req[r].pc = "rl_check" /\ req'[r].pc = "handler" /\ Usable) =>
         LET limit == getRateLimitForUser(req[r].user, req[r].apiKey) IN
         /\ req'[r].remaining =
              max0(limit.max - parseInt(redis'[req[r].cacheKey].val))
         /\ req'[r].resetAt = req[r].windowStart + limit.windowMinutes * 60]_vars


\* C21: a resolution that returns a fact produced by the generator, and whose
\* caller did not opt out of saving, has left a record of that fact in the
\* persistent store, whether the request named a category or not.
C21_GeneratedFactIsPersisted ==
  (/\ task["t1"].pc = "done"
   /\ task["t1"].error = ""
   /\ task["t1"].source = "generated"
   /\ task["t1"].saveAIFacts) =>
    \E f \in facts : f.generated /\ f.category = task["t1"].fact.category


\* C22: every record in the persistent store that came from the generator is
\* flagged generated and is not verified.
C22_SavedGeneratedFactIsUnverified ==
  \A f \in facts : f.generated => (f.ai_generated /\ ~f.verified)


\* C23: a resolution with forceNew that returns a fact did not take it from a
\* cache entry: it went to the store, a generated fact comes from a call of
\* the generator made by this resolution, and (the cache being reachable) the
\* result is in the cache under the request's key when it is returned.
C23_ForceNewBypassesCache ==
  (task["t1"].pc = "done" /\ task["t1"].forceNew /\ task["t1"].error = "") =>
    /\ task["t1"].source # "cache"
    /\ task["t1"].storeQueries >= 1
    /\ task["t1"].source = "generated" => task["t1"].genCalls >= 1
    /\ outages = 0 => task["t1"].cachedAtReturn


\* expiry instant a is not before expiry instant b (NoExpiry is never)
ExpiresNoSooner(a, b) == a = NoExpiry \/ (b # NoExpiry /\ a >= b)

\* C24: between calls, with the store reachable throughout, a tag's member
\* list does not expire before any key registered in it that is still cached.
C24_TagOutlivesMembers ==
  (cs.pc \in {"idle", "done"} /\ outages = 0) =>
    \A tag \in Tags :
      LET tagKey == generateKey(tagKeyOf(tag)) IN
      Live(redis, tagKey, now) =>
        \A k \in Members(parse(redis[tagKey].val).items) :
          Live(redis, generateKey(k), now) =>
            ExpiresNoSooner(redis[tagKey].exp, redis[generateKey(k)].exp)


\* C25: a fact a resolution took from the persistent store is verified,
\* whether the request named a category or not.
C25_StoreLookupReturnsVerified ==
  (task["t1"].pc = "done" /\ task["t1"].error = "" /\ task["t1"].source = "store") =>
    task["t1"].fact.verified


\* C26: a category request that asks to exclude generated facts and gets a
\* fact gets one that does not come from the generator.
C26_ExcludeAINeverReturnsGenerated ==
  (/\ task["t1"].pc = "done"
   /\ task["t1"].op = "category"
   /\ task["t1"].excludeAI
   /\ task["t1"].error = "") =>
    (~task["t1"].fact.generated /\ ~task["t1"].fact.ai_generated)


\* C27: the rate window counter is keyed by the identity and the window start:
\* two requests of the same identity in the same window, whichever credential
\* each presented, count against one and the same counter.
C27_CounterKeyedByIdentity ==
  \A r \in DOMAIN req : \A q \in DOMAIN req :
    (/\ req[r].cacheKey # ""
     /\ req[q].cacheKey # ""
     /\ req[r].user.id = req[q].user.id
     /\ req[r].windowStart = req[q].windowStart) =>
      req[r].cacheKey = req[q].cacheKey


\* the cache keys clearFactCaches is responsible for
FactCacheKeys ==
  {"random_fact_any"} \cup {randomKey(c) : c \in Categories} \cup {categoryKey(c) : c \in Categories}

\* the entry under key is a version of the stored fact id that the store no
\* longer holds
HoldsStaleVersion(key, id) ==
  /\ Live(redis, key, now)
  /\ JSONparse(redis[key].val).id = id
  /\ \A f \in facts : JSONstringify(f) # redis[key].val

\* C28: once an update or a deletion of a fact has completed and the
\* resolution in flight has finished, no entry under random_fact_any,
\* random_fact_<c> or fact_category_<c> holds the version of that fact from
\* before the mutation.
C28_NoStaleEntryAfterMutation ==
  (/\ task["t2"].pc = "done"
   /\ task["t2"].error = ""
   /\ task["t1"].pc \in {"idle", "done"}) =>
    \A key \in FactCacheKeys : ~HoldsStaleVersion(key, task["t2"].fact.id)


\* the save of document d completes in this step although its reset instant
\* has passed
SavedAfterReset(stored, after, pcFrom, pcTo) ==
  /\ req["r1"].pc = pcFrom
  /\ req'["r1"].pc = pcTo
  /\ req["r1"].status < 400
  /\ now >= stored.monthly_reset_date
  /\ after # stored

\* C29: when a successful request is recorded after the monthly reset instant
\* has passed, the window is reset and the request is counted in the new
\* window: the stored monthly count is 1 and the total has grown by 1, for
\* the identity and for the credential.
C29_FirstRequestOfMonthIsCounted ==
  [][/\ SavedAfterReset(users["u1"], users'["u1"], "rec_user", "rec_key") =>
          /\ users'["u1"].monthly_requests = 1
          /\ users'["u1"].total_requests = users["u1"].total_requests + 1
     /\ SavedAfterReset(apiKeys["kA"], apiKeys'["kA"], "rec_key", "recorded") =>
          /\ apiKeys'["kA"].monthly_requests = 1
          /\ apiKeys'["kA"].total_requests = apiKeys["kA"].total_requests + 1]_vars


\* the keys the tag's member-set entry lists
TaggedKeys(tag) ==
  LET tagKey == generateKey(tagKeyOf(tag)) IN
  IF Live(redis, tagKey, now) /\ parse(redis[tagKey].val).t = "array"
    THEN Members(parse(redis[tagKey].val).items)
    ELSE {}

\* C30: under any interleaving of concurrent setWithTags calls that name the
\* same tag, once all of them have completed the tag's member set contains
\* every key they stored, so that a later invalidateByTag deletes each of them.
C30_ConcurrentTaggingKeepsEveryKey ==
  (/\ cs.pc = "done" /\ cs.op = "setWithTags" /\ cs.ok
   /\ peer.pc = "done" /\ peer.op = "setWithTags" /\ peer.ok
   /\ cs.tag = peer.tag) =>
    {cs.key, peer.key} \subseteq TaggedKeys(cs.tag)

====
